---- MODULE Spec2Model ----
(***************************************************************************)
(* The per-thread lock stack of HotSpot's lightweight locking              *)
(* (src/hotspot/share/runtime/lockStack.cpp), checked build (ASSERT,       *)
(* !PRODUCT).  The ledger is the pair (_top, _base): _top is a byte offset *)
(* into the owning JavaThread, _base the array of CAPACITY oop slots.      *)
(*                                                                         *)
(* Five specifications share the variables:                                *)
(*   Spec          the ledger driven by push / pop / remove / contains /   *)
(*                 verify calls, each guarded by its own precondition;     *)
(*   SpecProtocol  the owner thread fast-locking and unlocking while other *)
(*                 threads inflate contended objects, with the read-only   *)
(*                 calls in between;                                       *)
(*   SpecCheck     verify_consistent_lock_order applied to inputs drawn    *)
(*                 from bounded sets;                                      *)
(*   SpecVerify    verify applied to every ledger, valid or not;           *)
(*   SpecPause     push / pop / remove as single memory steps of the owner *)
(*                 with verify calls of other threads in between.          *)
(***************************************************************************)
EXTENDS Integers, Sequences, FiniteSets

VARIABLES layout, recursive, _top, _base, mark, waiting, lock_order,
          leaf_frame, fatal, last, hist, count, running

vars == <<layout, recursive, _top, _base, mark, waiting, lock_order,
          leaf_frame, fatal, last, hist, count, running>>

\* ------------------------------------------------------------------ bounds

\* Number of slots of _base.  The model scales LockStack::CAPACITY down.
CAPACITY == 3

\* Longest true lock order handed to verify_consistent_lock_order.
MaxLockOrder == 3

\* ----------------------------------------------------------------- values

\* The oops the thread locks.
Oops == {"A", "B", "C"}

\* nullptr, the value of a zapped slot.
NULL == "null"

\* (lock_stack_base_offset, oopSize) of the builds modelled: a 64-bit and a
\* 32-bit JavaThread layout.
Layouts == {[base |-> 16, slot |-> 8], [base |-> 12, slot |-> 4]}

lock_stack_base_offset == layout.base

oopSize == layout.slot

\* The lock-state descriptor of an oop: its mark word and, when the mark
\* holds a monitor, the monitor's owner as seen from the ledger's thread.
\*   "unlocked"     neutral mark
\*   "fast_locked"  mark.is_fast_locked()
\*   "anonymous"    has monitor, monitor->is_owner_anonymous()
\*   "self"         has monitor, monitor->is_owner(get_thread())
\*   "other"        has monitor, owner neither anonymous nor this thread
Descriptors == {"unlocked", "fast_locked", "anonymous", "self", "other"}

\* Who calls verify(): the owning JavaThread, another JavaThread, or a
\* non-Java thread (VM thread, GC worker); and whether at a safepoint.
Callers == {"owner", "java", "vm"}

\* ---------------------------------------------------------------- offsets

start_offset == lock_stack_base_offset

\* end_offset at the last slot instead of one past it.
end_offset_last_slot == lock_stack_base_offset + (CAPACITY - 1) * oopSize

end_offset == lock_stack_base_offset + CAPACITY * oopSize

to_index(offset) == (offset - lock_stack_base_offset) \div oopSize

to_offset(index) == lock_stack_base_offset + index * oopSize

\* The ledger as a value.
LS == [top |-> _top, base |-> _base]

EmptyBase == [i \in 0 .. CAPACITY - 1 |-> NULL]

\* ------------------------------------------------------------- operations

is_full(ls) == ls.top >= end_offset

is_empty(ls) == to_index(ls.top) = 0

\* contains whose scan stops before slot 0 (i > 0 for i >= 0).
contains_skips_bottom(ls, o) == \E i \in 1 .. to_index(ls.top) - 1 : ls.base[i] = o

\* Linear scan from top - 1 down to 0.
contains(ls, o) == \E i \in 0 .. to_index(ls.top) - 1 : ls.base[i] = o

\* Writes o at top and advances top by one slot.
push(ls, o) ==
  [top |-> ls.top + oopSize,
   base |-> [ls.base EXCEPT ![to_index(ls.top)] = o]]

\* pop that reads the slot at the retreated top's successor: off by one.
pop_reads_above(ls) ==
  [top |-> ls.top - oopSize,
   base |-> [ls.base EXCEPT ![to_index(ls.top) - 1] = NULL],
   ret |-> IF to_index(ls.top) < CAPACITY THEN ls.base[to_index(ls.top)] ELSE NULL]

\* Retreats top by one slot, zaps the vacated slot, returns the oop.
pop(ls) ==
  [top |-> ls.top - oopSize,
   base |-> [ls.base EXCEPT ![to_index(ls.top) - 1] = NULL],
   ret |-> ls.base[to_index(ls.top) - 1]]

\* The position remove(o) deletes: the topmost slot holding o.
remove_position(ls, o) ==
  CHOOSE p \in 0 .. to_index(ls.top) - 1 :
    /\ ls.base[p] = o
    /\ \A q \in p + 1 .. to_index(ls.top) - 1 : ls.base[q] # o

\* remove that fills the gap with the top entry instead of shifting.
remove_swaps(ls, o) ==
  LET n == to_index(ls.top)
      p == remove_position(ls, o)
  IN [top |-> ls.top - oopSize,
      base |-> [i \in 0 .. CAPACITY - 1 |->
                  IF i = p /\ p < n - 1 THEN ls.base[n - 1]
                  ELSE IF i < n - 1 THEN ls.base[i]
                  ELSE NULL]]

\* Shifts the entries above the position down by one slot, retreats top and
\* zaps the vacated top slot.
remove(ls, o) ==
  LET n == to_index(ls.top)
      p == remove_position(ls, o)
  IN [top |-> ls.top - oopSize,
      base |-> [i \in 0 .. CAPACITY - 1 |->
                  IF i < p THEN ls.base[i]
                  ELSE IF i < n - 1 THEN ls.base[i + 1]
                  ELSE NULL]]

\* ----------------------------------------------------------------- verify

\* verify's inner loop without the collapse of adjacent identical entries.
verify_run_end_no_collapse(base, top, i, o) == i

RECURSIVE verify_run_end(_, _, _, _)
\* for (; i < top - 1; i++) { if (_base[i + 1] != o) break; }
verify_run_end(base, top, i, o) ==
  IF i < top - 1 /\ base[i + 1] = o
  THEN verify_run_end(base, top, i + 1, o)
  ELSE i

RECURSIVE verify_live_skips_next(_, _, _)
\* verify's uniqueness loop started one slot too high (j = i + 2).
verify_live_skips_next(base, top, i) ==
  IF i >= top THEN "ok"
  ELSE IF base[i] = NULL THEN "no zapped before top"
  ELSE LET i2 == IF recursive THEN verify_run_end(base, top, i, base[i]) ELSE i
       IN IF \E j \in i2 + 2 .. top - 1 : base[i2] = base[j]
          THEN "entries must be unique"
          ELSE verify_live_skips_next(base, top, i2 + 1)

RECURSIVE verify_live(_, _, _)
\* for (int i = 0; i < top; i++) { ... }: the first assert that fails, or "ok".
verify_live(base, top, i) ==
  IF i >= top THEN "ok"
  ELSE IF base[i] = NULL THEN "no zapped before top"
  ELSE LET i2 == IF recursive THEN verify_run_end(base, top, i, base[i]) ELSE i
       IN IF \E j \in i2 + 1 .. top - 1 : base[i2] = base[j]
          THEN "entries must be unique"
          ELSE verify_live(base, top, i2 + 1)

\* verify's zapped-region loop started one slot too low (i = top - 1).
verify_zapped_from_below(base, top) ==
  IF \E i \in top - 1 .. CAPACITY - 1 : i >= 0 /\ base[i] # NULL
  THEN "only zapped entries after top"
  ELSE "ok"

\* for (int i = top; i < CAPACITY; i++) assert(_base[i] == nullptr)
verify_zapped(base, top) ==
  IF \E i \in top .. CAPACITY - 1 : base[i] # NULL
  THEN "only zapped entries after top"
  ELSE "ok"

\* The gate of verify's slot loops always open.
verify_inspects_always(caller, at_safepoint) == TRUE

\* The gate of verify's slot loops without is_owning_thread().
verify_inspects_any_java(caller, at_safepoint) == at_safepoint \/ caller # "vm"

\* SafepointSynchronize::is_at_safepoint() ||
\*   (Thread::current()->is_Java_thread() && is_owning_thread())
verify_inspects(caller, at_safepoint) == at_safepoint \/ caller = "owner"

\* verify whose overflow assert is strict (_top < end_offset).
verify_strict_overflow(ls, caller, at_safepoint) ==
  IF ~(ls.top < end_offset) THEN "lockstack overflow"
  ELSE IF ~(ls.top >= start_offset) THEN "lockstack underflow"
  ELSE IF verify_inspects(caller, at_safepoint)
  THEN LET top == to_index(ls.top)
           live == verify_live(ls.base, top, 0)
       IN IF live # "ok" THEN live ELSE verify_zapped(ls.base, top)
  ELSE "ok"

\* LockStack::verify: "ok", or the message of the assert that fails.
verify(ls, caller, at_safepoint) ==
  IF ~(ls.top <= end_offset) THEN "lockstack overflow"
  ELSE IF ~(ls.top >= start_offset) THEN "lockstack underflow"
  ELSE IF verify_inspects(caller, at_safepoint)
  THEN LET top == to_index(ls.top)
           live == verify_live(ls.base, top, 0)
       IN IF live # "ok" THEN live ELSE verify_zapped(ls.base, top)
  ELSE "ok"

\* --------------------------------------------------------------- print_on

\* oopDesc::is_oop(o): every reference of Oops is one, nullptr is not.
is_oop(o) == o \in Oops

RECURSIVE print_on_from(_, _)
\* for (int i = to_index(_top); (--i) >= 0;) { ... }: the lines printed, one
\* for each slot read.
print_on_from(ls, i) ==
  IF i - 1 >= 0
  THEN <<[index |-> i - 1, oop |-> ls.base[i - 1], is_oop |-> is_oop(ls.base[i - 1])]>>
       \o print_on_from(ls, i - 1)
  ELSE <<>>

\* LockStack::print_on
print_on(ls) == print_on_from(ls, to_index(ls.top))

\* ------------------------------------------------------------------- Spec

NoCall == [op |-> "none", arg |-> NULL, ret |-> NULL, ok |-> TRUE,
           pre |-> [top |-> 0, base |-> EmptyBase]]

NoHist == [pushes |-> <<>>, snaps |-> <<>>, pops |-> 0]

\* The owner is between operations: op is the operation it is in, done the
\* one it completed last, on obj, from the ledger start.
NotRunning ==
  [op |-> "idle", obj |-> NULL, i |-> 0, done |-> "none",
   start |-> [top |-> 0, base |-> EmptyBase]]

\* LockStack::LockStack: _top(lock_stack_base_offset), every slot nullptr.
Constructed ==
  /\ layout \in Layouts
  /\ recursive \in BOOLEAN
  /\ _top = lock_stack_base_offset
  /\ _base = EmptyBase
  /\ fatal = "none"

Init ==
  /\ Constructed
  /\ mark = [o \in Oops |-> "unlocked"]
  /\ waiting = NULL
  /\ lock_order = <<>>
  /\ leaf_frame = TRUE
  /\ last = [NoCall EXCEPT !.pre = LS]
  /\ hist = NoHist
  /\ count = [o \in Oops |-> 0]
  /\ running = NotRunning

Call(op, arg, ret, ok) ==
  [op |-> op, arg |-> arg, ret |-> ret, ok |-> ok, pre |-> LS]

\* The pushed reference is absent or, with recursion support, the top entry.
push_precondition(ls, o) ==
  \/ ~contains(ls, o)
  \/ recursive /\ ~is_empty(ls) /\ ls.base[to_index(ls.top) - 1] = o

Unobserved ==
  UNCHANGED <<layout, recursive, mark, waiting, lock_order, leaf_frame, running>>

Push(o) ==
  /\ fatal = "none"
  /\ ~is_full(LS)
  /\ push_precondition(LS, o)
  /\ LET r == push(LS, o)
     IN /\ _top' = r.top
        /\ _base' = r.base
  /\ last' = Call("push", o, NULL, TRUE)
  /\ hist' = IF hist.pops > 0 \/ hist.pushes = <<>>
             THEN [pushes |-> <<o>>, snaps |-> <<LS>>, pops |-> 0]
             ELSE [hist EXCEPT !.pushes = Append(@, o), !.snaps = Append(@, LS)]
  /\ count' = [count EXCEPT ![o] = @ + 1]
  /\ fatal' = fatal
  /\ Unobserved

\* push on a full ledger: a fatal contract violation, nothing is written.
PushFull(o) ==
  /\ fatal = "none"
  /\ is_full(LS)
  /\ fatal' = "must have room"
  /\ last' = Call("push", o, NULL, FALSE)
  /\ UNCHANGED <<_top, _base, hist, count>>
  /\ Unobserved

Pop ==
  /\ fatal = "none"
  /\ ~is_empty(LS)
  /\ LET r == pop(LS)
     IN /\ _top' = r.top
        /\ _base' = r.base
        /\ last' = Call("pop", NULL, r.ret, TRUE)
        /\ count' = [count EXCEPT ![r.ret] = @ - 1]
  /\ hist' = IF hist.pops < Len(hist.pushes)
             THEN [hist EXCEPT !.pops = @ + 1]
             ELSE NoHist
  /\ fatal' = fatal
  /\ Unobserved

\* pop on an empty ledger: a fatal contract violation.
PopEmpty ==
  /\ fatal = "none"
  /\ is_empty(LS)
  /\ fatal' = "underflow"
  /\ last' = Call("pop", NULL, NULL, FALSE)
  /\ UNCHANGED <<_top, _base, hist, count>>
  /\ Unobserved

Remove(o) ==
  /\ fatal = "none"
  /\ contains(LS, o)
  /\ LET r == remove(LS, o)
     IN /\ _top' = r.top
        /\ _base' = r.base
  /\ last' = Call("remove", o, NULL, TRUE)
  /\ hist' = NoHist
  /\ count' = [count EXCEPT ![o] = @ - 1]
  /\ fatal' = fatal
  /\ Unobserved

\* remove of an absent reference: a fatal contract violation.
RemoveAbsent(o) ==
  /\ fatal = "none"
  /\ ~contains(LS, o)
  /\ fatal' = "entry must be present"
  /\ last' = Call("remove", o, NULL, FALSE)
  /\ UNCHANGED <<_top, _base, hist, count>>
  /\ Unobserved

Contains(o) ==
  /\ fatal = "none"
  /\ last' = Call("contains", o, NULL, contains(LS, o))
  /\ UNCHANGED <<_top, _base, hist, count, fatal>>
  /\ Unobserved

Verify(caller, at_safepoint) ==
  /\ fatal = "none"
  /\ LET r == verify(LS, caller, at_safepoint)
     IN /\ last' = Call("verify", caller, r, r = "ok")
        /\ fatal' = IF r = "ok" THEN fatal ELSE r
  /\ UNCHANGED <<_top, _base, hist, count>>
  /\ Unobserved

\* print_on that walks the cursor itself down instead of a local index.
PrintOn_consumes ==
  /\ fatal = "none"
  /\ last' = Call("print_on", NULL, print_on(LS), TRUE)
  /\ _top' = start_offset
  /\ UNCHANGED <<_base, hist, count, fatal>>
  /\ Unobserved

PrintOn ==
  /\ fatal = "none"
  /\ last' = Call("print_on", NULL, print_on(LS), TRUE)
  /\ UNCHANGED <<_top, _base, hist, count, fatal>>
  /\ Unobserved

Next ==
  \/ \E o \in Oops : Push(o)
  \/ \E o \in Oops : PushFull(o)
  \/ Pop
  \/ PopEmpty
  \/ \E o \in Oops : Remove(o)
  \/ \E o \in Oops : RemoveAbsent(o)
  \/ \E o \in Oops : Contains(o)
  \/ \E c \in Callers, s \in BOOLEAN : Verify(c, s)

Spec == Init /\ [][Next]_vars

\* ------------------------------------------- verify_consistent_lock_order

\* The lock-state descriptor, read through obj->mark_acquire().
is_locked(obj) == mark[obj] # "unlocked"

is_fast_locked(obj) == mark[obj] = "fast_locked"

is_owner_anonymous(obj) == mark[obj] = "anonymous"

is_owner(obj) == mark[obj] = "self"

\* get_thread()->current_waiting_monitor() == mark.monitor()
is_waiting_on(obj) == waiting = obj

\* for (int index = 0; index < top_index; index++)
\*   if (_base[index] == obj) { top_index = index + 1; break; }
found_top_index(ls, obj, top_index) ==
  IF \E index \in 0 .. top_index - 1 : ls.base[index] = obj
  THEN 1 + CHOOSE index \in 0 .. top_index - 1 :
             /\ ls.base[index] = obj
             /\ \A lower \in 0 .. index - 1 : ls.base[lower] # obj
  ELSE top_index

RECURSIVE same_before(_, _, _)
\* while (lock_index-- > 0 && lock_order.at(lock_index) == obj) top_index++;
\* the number of increments, lock_index being the elements before obj.
same_before(lo, lock_index, obj) ==
  IF lock_index > 0 /\ lo[lock_index] = obj
  THEN 1 + same_before(lo, lock_index - 1, obj)
  ELSE 0

RECURSIVE search_top_index(_, _, _)
\* The !leaf_frame search: lock_index elements of lock_order are still to be
\* scanned.  Yields the top_index found and whether the assert held.
search_top_index(ls, lo, lock_index) ==
  IF lock_index = 0
  THEN [top_index |-> to_index(ls.top), msg |-> "ok"]
  ELSE LET obj == lo[lock_index]
       IN IF contains(ls, obj)
          THEN LET found == found_top_index(ls, obj, to_index(ls.top))
                   top_index == IF recursive
                                THEN found + same_before(lo, lock_index - 1, obj)
                                ELSE found
               IN [top_index |-> top_index,
                   msg |-> IF recursive /\ ~(top_index <= to_index(ls.top))
                           THEN "too many obj in lock_order"
                           ELSE "ok"]
          ELSE search_top_index(ls, lo, lock_index - 1)

\* check_inflated without the assert that obj is not on the lock stack.
check_inflated_no_contains(ls, obj, leaf) ==
  IF is_fast_locked(obj) THEN "must be inflated"
  ELSE IF ~(is_owner(obj) \/ (~leaf /\ is_waiting_on(obj)))
  THEN "must be owned by (or waited on by) thread"
  ELSE "ok"

\* check_inflated whose owner assert also accepts an anonymous owner.
check_inflated_accepts_anonymous(ls, obj, leaf) ==
  IF is_fast_locked(obj) THEN "must be inflated"
  ELSE IF ~(is_owner(obj) \/ is_owner_anonymous(obj) \/ (~leaf /\ is_waiting_on(obj)))
  THEN "must be owned by (or waited on by) thread"
  ELSE IF contains(ls, obj) THEN "must not be on lock_stack"
  ELSE "ok"

\* check_inflated that accepts a waited-on monitor in a leaf frame too.
check_inflated_waiting_any_frame(ls, obj, leaf) ==
  IF is_fast_locked(obj) THEN "must be inflated"
  ELSE IF ~(is_owner(obj) \/ is_waiting_on(obj))
  THEN "must be owned by (or waited on by) thread"
  ELSE IF contains(ls, obj) THEN "must not be on lock_stack"
  ELSE "ok"

\* The asserts on one element of lock_order that is not the entry below
\* top_index.
check_inflated(ls, obj, leaf) ==
  IF is_fast_locked(obj) THEN "must be inflated"
  ELSE IF ~(is_owner(obj) \/ (~leaf /\ is_waiting_on(obj)))
  THEN "must be owned by (or waited on by) thread"
  ELSE IF contains(ls, obj) THEN "must not be on lock_stack"
  ELSE "ok"

\* check_fast_locked without the anonymous-owner alternative.
check_fast_locked_strict(obj) ==
  IF ~is_fast_locked(obj)
  THEN "must be fast_locked or inflated by other thread"
  ELSE "ok"

\* check_fast_locked that accepts every monitor, whoever owns it.
check_fast_locked_any_monitor(obj) ==
  IF ~(is_fast_locked(obj) \/ mark[obj] \in {"anonymous", "self", "other"})
  THEN "must be fast_locked or inflated by other thread"
  ELSE "ok"

\* check_fast_locked that also accepts a monitor owned by this thread.
check_fast_locked_accepts_owner(obj) ==
  IF ~(is_fast_locked(obj) \/ is_owner_anonymous(obj) \/ is_owner(obj))
  THEN "must be fast_locked or inflated by other thread"
  ELSE "ok"

\* The asserts on one element of lock_order that is the entry below top_index.
check_fast_locked(obj) ==
  IF ~(is_fast_locked(obj) \/ is_owner_anonymous(obj))
  THEN "must be fast_locked or inflated by other thread"
  ELSE "ok"

RECURSIVE check_lock_order_no_consume(_, _, _, _, _)
\* check_lock_order without the top_index-- of a matched entry.
check_lock_order_no_consume(ls, lo, leaf, lock_index, top_index) ==
  IF lock_index = 0
  THEN [msg |-> "ok", top_index |-> top_index]
  ELSE LET obj == lo[lock_index]
       IN IF ~is_locked(obj)
          THEN [msg |-> "must be locked", top_index |-> top_index]
          ELSE IF top_index > 0 /\ obj = ls.base[top_index - 1]
          THEN IF check_fast_locked(obj) # "ok"
               THEN [msg |-> check_fast_locked(obj), top_index |-> top_index]
               ELSE check_lock_order_no_consume(ls, lo, leaf, lock_index - 1, top_index)
          ELSE IF check_inflated(ls, obj, leaf) # "ok"
               THEN [msg |-> check_inflated(ls, obj, leaf), top_index |-> top_index]
               ELSE check_lock_order_no_consume(ls, lo, leaf, lock_index - 1, top_index)

RECURSIVE check_lock_order(_, _, _, _, _)
\* while (lock_index-- > 0) { ... }: the message of the first assert that
\* fails, or "ok", and top_index when the loop ended.
check_lock_order(ls, lo, leaf, lock_index, top_index) ==
  IF lock_index = 0
  THEN [msg |-> "ok", top_index |-> top_index]
  ELSE LET obj == lo[lock_index]
       IN IF ~is_locked(obj)
          THEN [msg |-> "must be locked", top_index |-> top_index]
          ELSE IF top_index > 0 /\ obj = ls.base[top_index - 1]
          THEN IF check_fast_locked(obj) # "ok"
               THEN [msg |-> check_fast_locked(obj), top_index |-> top_index]
               ELSE check_lock_order(ls, lo, leaf, lock_index - 1, top_index - 1)
          ELSE IF check_inflated(ls, obj, leaf) # "ok"
               THEN [msg |-> check_inflated(ls, obj, leaf), top_index |-> top_index]
               ELSE check_lock_order(ls, lo, leaf, lock_index - 1, top_index)

\* verify_consistent_lock_order with a closing assert that the window was
\* consumed down to 0.
verify_consistent_lock_order_all_consumed(ls, lo, leaf) ==
  LET search == IF leaf
                THEN [top_index |-> to_index(ls.top), msg |-> "ok"]
                ELSE search_top_index(ls, lo, Len(lo))
  IN IF search.msg # "ok"
     THEN [msg |-> search.msg, window |-> search.top_index, final |-> search.top_index]
     ELSE LET r == check_lock_order(ls, lo, leaf, Len(lo), search.top_index)
          IN [msg |-> IF r.msg = "ok" /\ r.top_index # 0
                      THEN "lock stack entries left" ELSE r.msg,
              window |-> search.top_index, final |-> r.top_index]

\* LockStack::verify_consistent_lock_order: msg is "ok" or the assert that
\* fails, window the top_index the second loop starts with, final the
\* top_index it ends with.
verify_consistent_lock_order(ls, lo, leaf) ==
  LET search == IF leaf
                THEN [top_index |-> to_index(ls.top), msg |-> "ok"]
                ELSE search_top_index(ls, lo, Len(lo))
  IN IF search.msg # "ok"
     THEN [msg |-> search.msg, window |-> search.top_index, final |-> search.top_index]
     ELSE LET r == check_lock_order(ls, lo, leaf, Len(lo), search.top_index)
          IN [msg |-> r.msg, window |-> search.top_index, final |-> r.top_index]

\* -------------------------------------------------------------- SpecCheck

RECURSIVE SeqsUpTo(_, _)
SeqsUpTo(S, n) ==
  IF n = 0 THEN {<<>>}
  ELSE LET shorter == SeqsUpTo(S, n - 1)
       IN shorter \cup {Append(q, x) : q \in {t \in shorter : Len(t) = n - 1}, x \in S}

\* The order in which a lock order first names the oops.  The check only
\* compares oops for identity, so every lock order is a renaming of one that
\* names them in this order; the ledger ranges over every arrangement.
OopRank == [o \in Oops |-> CASE o = "A" -> 1 [] o = "B" -> 2 [] o = "C" -> 3]

FirstNamedInOrder(lo) ==
  \A i \in 1 .. Len(lo) :
    \A o \in Oops :
      OopRank[o] < OopRank[lo[i]] => \E j \in 1 .. i - 1 : lo[j] = o

LockOrders == {lo \in SeqsUpTo(Oops, MaxLockOrder) : FirstNamedInOrder(lo)}

Range(q) == {q[i] : i \in 1 .. Len(q)}

Inflated == {"anonymous", "self", "other"}

\* The ledgers push, pop and remove produce: those verify() accepts.
InitCheck ==
  /\ layout = [base |-> 16, slot |-> 8]
  /\ recursive \in BOOLEAN
  /\ _base \in [0 .. CAPACITY - 1 -> Oops \cup {NULL}]
  /\ _top \in {to_offset(i) : i \in 0 .. CAPACITY}
  /\ verify(LS, "owner", FALSE) = "ok"
  /\ fatal = "none"
  /\ mark = [o \in Oops |-> "unlocked"]
  /\ waiting = NULL
  /\ lock_order = <<>>
  /\ leaf_frame = TRUE
  /\ last = [NoCall EXCEPT !.pre = LS]
  /\ hist = NoHist
  /\ count = [o \in Oops |-> Cardinality({i \in 0 .. to_index(_top) - 1 : _base[i] = o})]
  /\ running = NotRunning

\* One call of verify_consistent_lock_order(lo, leaf) with the descriptors m
\* and the waiting monitor w read during the call.  The call reads the
\* descriptors of the elements of lo only; an oop it does not name is
\* fast-locked when it is in the ledger and unlocked otherwise.
VerifyConsistentLockOrder(lo, leaf, m, w) ==
  /\ fatal = "none"
  /\ \A o \in Oops \ Range(lo) :
       m[o] = IF contains(LS, o) THEN "fast_locked" ELSE "unlocked"
  /\ w # NULL => w \in Range(lo) /\ m[w] \in Inflated
  /\ mark' = m
  /\ waiting' = w
  /\ lock_order' = lo
  /\ leaf_frame' = leaf
  /\ UNCHANGED <<layout, recursive, _top, _base, fatal, hist, count, running>>
  /\ LET r == verify_consistent_lock_order(LS, lo, leaf)'
     IN last' = Call("verify_consistent_lock_order", NULL, r, r.msg = "ok")

\* One call per behaviour: the ledger comes from InitCheck, the arguments and
\* the descriptors from the call.
NextCheck ==
  /\ last.op = "none"
  /\ \E lo \in LockOrders, leaf \in BOOLEAN, m \in [Oops -> Descriptors],
        w \in Oops \cup {NULL} :
       VerifyConsistentLockOrder(lo, leaf, m, w)

SpecCheck == InitCheck /\ [][NextCheck]_vars

\* ----------------------------------------------------------- SpecProtocol

\* Longest true lock order of the protocol: one more than the ledger holds,
\* so that a lock is taken through the monitor when the ledger is full.
MaxHeld == 4

RECURSIVE remove_all(_, _)
\* The caller's repeated remove(o) until no copy of a recursive run is left.
remove_all(ls, o) ==
  IF contains(ls, o) THEN remove_all(remove(ls, o), o) ELSE ls

InitProtocol ==
  /\ layout = [base |-> 16, slot |-> 8]
  /\ recursive \in BOOLEAN
  /\ _top = lock_stack_base_offset
  /\ _base = EmptyBase
  /\ fatal = "none"
  /\ mark = [o \in Oops |-> "unlocked"]
  /\ waiting = NULL
  /\ lock_order = <<>>
  /\ leaf_frame = TRUE
  /\ last = [NoCall EXCEPT !.pre = LS]
  /\ hist = NoHist
  /\ count = [o \in Oops |-> 0]
  /\ running = NotRunning

Fixed ==
  UNCHANGED <<layout, recursive, waiting, leaf_frame, fatal, hist, count, running>>

SetLedger(ls) == _top' = ls.top /\ _base' = ls.base

\* Owner: fast-lock of an unlocked object; the descriptor becomes fast-locked
\* and the object is pushed.
FastLock(o) ==
  /\ fatal = "none"
  /\ Len(lock_order) < MaxHeld
  /\ mark[o] = "unlocked"
  /\ ~is_full(LS)
  /\ mark' = [mark EXCEPT ![o] = "fast_locked"]
  /\ SetLedger(push(LS, o))
  /\ lock_order' = Append(lock_order, o)
  /\ last' = Call("fast_lock", o, NULL, TRUE)
  /\ Fixed

\* Owner: re-lock of the object at the top of the ledger, with recursion
\* support; a second adjacent copy is pushed.
RecursiveLock(o) ==
  /\ fatal = "none"
  /\ Len(lock_order) < MaxHeld
  /\ recursive
  /\ ~is_empty(LS) /\ _base[to_index(_top) - 1] = o
  /\ ~is_full(LS)
  /\ SetLedger(push(LS, o))
  /\ lock_order' = Append(lock_order, o)
  /\ last' = Call("recursive_lock", o, NULL, TRUE)
  /\ UNCHANGED mark
  /\ Fixed

\* Owner: fast-unlock of the most recently locked object, still fast-locked
\* and at the top of the ledger; one copy is popped, and the descriptor
\* becomes unlocked with the last copy.
FastUnlock ==
  /\ fatal = "none"
  /\ lock_order # <<>>
  /\ LET o == lock_order[Len(lock_order)]
         r == pop(LS)
     IN /\ mark[o] = "fast_locked"
        /\ ~is_empty(LS) /\ _base[to_index(_top) - 1] = o
        /\ SetLedger([top |-> r.top, base |-> r.base])
        /\ mark' = IF contains([top |-> r.top, base |-> r.base], o)
                   THEN mark
                   ELSE [mark EXCEPT ![o] = "unlocked"]
        /\ last' = Call("fast_unlock", o, r.ret, TRUE)
  /\ lock_order' = SubSeq(lock_order, 1, Len(lock_order) - 1)
  /\ Fixed

\* Another thread contends for a fast-locked object and inflates it: the
\* monitor's owner is anonymous, the ledger is not touched.
InflateByOther(o) ==
  /\ fatal = "none"
  /\ mark[o] = "fast_locked"
  /\ mark' = [mark EXCEPT ![o] = "anonymous"]
  /\ last' = Call("inflate_by_other", o, NULL, TRUE)
  /\ UNCHANGED <<_top, _base, lock_order>>
  /\ Fixed

\* Owner: finds its lock inflated with an anonymous owner; the entry is
\* removed from the ledger and the owner is recorded.
OwnerClaims(o) ==
  /\ fatal = "none"
  /\ mark[o] = "anonymous"
  /\ contains(LS, o)
  /\ SetLedger(remove_all(LS, o))
  /\ mark' = [mark EXCEPT ![o] = "self"]
  /\ last' = Call("owner_claims", o, NULL, TRUE)
  /\ UNCHANGED lock_order
  /\ Fixed

\* Owner: inflates a lock it holds fast-locked itself (a re-lock that is not
\* at the top of the ledger, a full ledger); the entry is removed and the
\* owner recorded.
OwnerInflates(o) ==
  /\ fatal = "none"
  /\ mark[o] = "fast_locked"
  /\ contains(LS, o)
  /\ SetLedger(remove_all(LS, o))
  /\ mark' = [mark EXCEPT ![o] = "self"]
  /\ last' = Call("owner_inflates", o, NULL, TRUE)
  /\ UNCHANGED lock_order
  /\ Fixed

\* Owner: enters a monitor: one it owns already, one no thread owns, or that
\* of an unlocked object when the ledger is full.
MonitorEnter(o) ==
  /\ fatal = "none"
  /\ Len(lock_order) < MaxHeld
  /\ \/ mark[o] \in {"self", "other"}
     \/ mark[o] = "unlocked" /\ is_full(LS)
  /\ mark' = [mark EXCEPT ![o] = "self"]
  /\ lock_order' = Append(lock_order, o)
  /\ last' = Call("monitor_enter", o, NULL, TRUE)
  /\ UNCHANGED <<_top, _base>>
  /\ Fixed

\* Owner: exits the monitor of the most recently locked object; with the
\* last hold the monitor is released.
MonitorExit ==
  /\ fatal = "none"
  /\ lock_order # <<>>
  /\ LET o == lock_order[Len(lock_order)]
         rest == SubSeq(lock_order, 1, Len(lock_order) - 1)
     IN /\ mark[o] = "self"
        /\ lock_order' = rest
        /\ mark' = IF o \in Range(rest) THEN mark ELSE [mark EXCEPT ![o] = "other"]
        /\ last' = Call("monitor_exit", o, NULL, TRUE)
  /\ UNCHANGED <<_top, _base>>
  /\ Fixed

\* The deflation of a monitor this thread does not hold.
Deflate(o) ==
  /\ fatal = "none"
  /\ mark[o] = "other"
  /\ o \notin Range(lock_order)
  /\ mark' = [mark EXCEPT ![o] = "unlocked"]
  /\ last' = Call("deflate", o, NULL, TRUE)
  /\ UNCHANGED <<_top, _base, lock_order>>
  /\ Fixed

\* The cross-check of the ledger against the thread's true lock order, all
\* of it held in the leaf frame.
CheckHeld ==
  /\ fatal = "none"
  /\ LET r == verify_consistent_lock_order(LS, lock_order, TRUE)
     IN /\ last' = Call("verify_consistent_lock_order", NULL, r, r.msg = "ok")
        /\ fatal' = IF r.msg = "ok" THEN fatal ELSE r.msg
  /\ UNCHANGED <<layout, recursive, _top, _base, mark, waiting, lock_order,
                 leaf_frame, hist, count, running>>

\* The cross-check for an outer frame that holds the first j locks of the
\* thread's lock order; the frames it called hold the others.
CheckOuterFrame(j) ==
  /\ fatal = "none"
  /\ j \in 1 .. Len(lock_order)
  /\ LET lo == SubSeq(lock_order, 1, j)
         r == verify_consistent_lock_order(LS, lo, FALSE)
     IN /\ last' = Call("verify_consistent_lock_order of an outer frame",
                        lo, r, r.msg = "ok")
        /\ fatal' = IF r.msg = "ok" THEN fatal ELSE r.msg
  /\ UNCHANGED <<layout, recursive, _top, _base, mark, waiting, lock_order,
                 leaf_frame, hist, count, running>>

NextProtocol ==
  \/ \E o \in Oops : FastLock(o)
  \/ \E o \in Oops : RecursiveLock(o)
  \/ FastUnlock
  \/ \E o \in Oops : InflateByOther(o)
  \/ \E o \in Oops : OwnerClaims(o)
  \/ \E o \in Oops : OwnerInflates(o)
  \/ \E o \in Oops : MonitorEnter(o)
  \/ MonitorExit
  \/ \E o \in Oops : Deflate(o)
  \/ CheckHeld
  \/ \E j \in 1 .. MaxHeld : CheckOuterFrame(j)
  \/ \E o \in Oops : Contains(o)
  \/ \E c \in Callers, s \in BOOLEAN : Verify(c, s)
  \/ PrintOn

SpecProtocol == InitProtocol /\ [][NextProtocol]_vars

\* ------------------------------------------------------------- SpecVerify

\* The offsets _top is drawn from: the slots, one below and one above them.
LedgerTops == {to_offset(i) : i \in -1 .. CAPACITY + 1}

\* Every ledger, whether or not push, pop and remove can produce it.
InitVerify ==
  /\ layout \in Layouts
  /\ recursive \in BOOLEAN
  /\ _base \in [0 .. CAPACITY - 1 -> Oops \cup {NULL}]
  /\ _top \in LedgerTops
  /\ fatal = "none"
  /\ mark = [o \in Oops |-> "unlocked"]
  /\ waiting = NULL
  /\ lock_order = <<>>
  /\ leaf_frame = TRUE
  /\ last = [NoCall EXCEPT !.pre = LS]
  /\ hist = NoHist
  /\ count = [o \in Oops |-> 0]
  /\ running = NotRunning

\* One call of verify() by caller, at a safepoint or not; the call record
\* keeps both.
VerifyBy(caller, at_safepoint) ==
  /\ fatal = "none"
  /\ LET r == verify(LS, caller, at_safepoint)
     IN /\ last' = Call("verify", [caller |-> caller, at_safepoint |-> at_safepoint],
                        r, r = "ok")
        /\ fatal' = IF r = "ok" THEN fatal ELSE r
  /\ UNCHANGED <<_top, _base, hist, count>>
  /\ Unobserved

\* One call per behaviour on the ledger InitVerify drew.
NextVerify ==
  /\ last.op = "none"
  /\ \E c \in Callers, s \in BOOLEAN : VerifyBy(c, s)

SpecVerify == InitVerify /\ [][NextVerify]_vars

\* -------------------------------------------------------------- SpecPause
\* push, pop and remove as the memory steps of spec 4.2, taken by the owner
\* one at a time; other threads call verify() between any two of them.

Completed(op, obj) == [running EXCEPT !.op = "idle", !.obj = obj, !.i = 0, !.done = op]

Idle == running.op = "idle"

OwnerStep == UNCHANGED <<layout, recursive, mark, waiting, lock_order, leaf_frame,
                         fatal, hist, count>>

\* push, first step: the reference is written at the top.
PushWrite(o) ==
  /\ fatal = "none" /\ Idle
  /\ ~is_full(LS)
  /\ push_precondition(LS, o)
  /\ _base' = [_base EXCEPT ![to_index(_top)] = o]
  /\ _top' = _top
  /\ running' = [op |-> "push", obj |-> o, i |-> 0, done |-> running.done, start |-> LS]
  /\ last' = Call("push", o, NULL, TRUE)
  /\ OwnerStep

\* push, second step: _top is advanced by one slot.
PushAdvance ==
  /\ running.op = "push"
  /\ _top' = _top + oopSize
  /\ _base' = _base
  /\ running' = Completed("push", running.obj)
  /\ last' = Call("push", running.obj, NULL, TRUE)
  /\ OwnerStep

\* pop, first step: _top is moved back by one slot.
PopRetreat ==
  /\ fatal = "none" /\ Idle
  /\ ~is_empty(LS)
  /\ _top' = _top - oopSize
  /\ _base' = _base
  /\ running' = [op |-> "pop", obj |-> _base[to_index(_top) - 1], i |-> 0,
                 done |-> running.done, start |-> LS]
  /\ last' = Call("pop", NULL, NULL, TRUE)
  /\ OwnerStep

\* pop, second step: the vacated slot is cleared.
PopClear ==
  /\ running.op = "pop"
  /\ _base' = [_base EXCEPT ![to_index(_top)] = NULL]
  /\ _top' = _top
  /\ running' = Completed("pop", running.obj)
  /\ last' = Call("pop", NULL, running.obj, TRUE)
  /\ OwnerStep

\* remove, first step: the reference is located at position i.
RemoveLocate(o) ==
  /\ fatal = "none" /\ Idle
  /\ contains(LS, o)
  /\ running' = [op |-> "remove", obj |-> o, i |-> remove_position(LS, o),
                 done |-> running.done, start |-> LS]
  /\ last' = Call("remove", o, NULL, TRUE)
  /\ UNCHANGED <<_top, _base>>
  /\ OwnerStep

\* remove: one entry above the gap is shifted down by one slot.
RemoveShift ==
  /\ running.op = "remove"
  /\ running.i < to_index(_top) - 1
  /\ _base' = [_base EXCEPT ![running.i] = _base[running.i + 1]]
  /\ _top' = _top
  /\ running' = [running EXCEPT !.i = @ + 1]
  /\ last' = Call("remove", running.obj, NULL, TRUE)
  /\ OwnerStep

\* remove: every entry above the gap is shifted; _top is moved back.
RemoveRetreat ==
  /\ running.op = "remove"
  /\ running.i = to_index(_top) - 1
  /\ _top' = _top - oopSize
  /\ _base' = _base
  /\ running' = [running EXCEPT !.op = "remove_clear"]
  /\ last' = Call("remove", running.obj, NULL, TRUE)
  /\ OwnerStep

\* remove, last step: the vacated top slot is cleared.
RemoveClear ==
  /\ running.op = "remove_clear"
  /\ _base' = [_base EXCEPT ![to_index(_top)] = NULL]
  /\ _top' = _top
  /\ running' = Completed("remove", running.obj)
  /\ last' = Call("remove", running.obj, NULL, TRUE)
  /\ OwnerStep

\* verify() by the owner about itself, between its operations.
VerifyByOwner == Idle /\ VerifyBy("owner", FALSE)

\* verify() by another thread at a safepoint: the owner is stopped between
\* operations.
VerifyAtSafepoint(caller) == Idle /\ caller # "owner" /\ VerifyBy(caller, TRUE)

\* verify() by another thread outside a safepoint, whatever the owner does.
VerifyOutsideSafepoint(caller) == caller # "owner" /\ VerifyBy(caller, FALSE)

NextPause ==
  \/ \E o \in Oops : PushWrite(o)
  \/ PushAdvance
  \/ PopRetreat
  \/ PopClear
  \/ \E o \in Oops : RemoveLocate(o)
  \/ RemoveShift
  \/ RemoveRetreat
  \/ RemoveClear
  \/ VerifyByOwner
  \/ \E c \in Callers : VerifyAtSafepoint(c)
  \/ \E c \in Callers : VerifyOutsideSafepoint(c)

SpecPause == InitProtocol /\ [][NextPause]_vars

\* ----------------------------------------------------------------- claims

\* Slots [0, top) are non-empty and slots [top, CAPACITY) are empty.
Dense(ls) ==
  /\ \A i \in 0 .. to_index(ls.top) - 1 : ls.base[i] # NULL
  /\ \A i \in to_index(ls.top) .. CAPACITY - 1 : ls.base[i] = NULL

\* Equal references occur only in one contiguous run, and only with
\* recursion support.
UniqueRuns(ls) ==
  \A i, j \in 0 .. to_index(ls.top) - 1 :
    i < j /\ ls.base[i] = ls.base[j] =>
      recursive /\ \A k \in i .. j : ls.base[k] = ls.base[i]

\* The live entries, bottom first.
Entries(ls) == [i \in 1 .. to_index(ls.top) |-> ls.base[i - 1]]

\* Length of the run of identical entries at the top.
TrailingRun(ls) ==
  LET n == to_index(ls.top)
  IN IF n = 0 THEN 0
     ELSE Cardinality({i \in 0 .. n - 1 :
                        \A k \in i .. n - 1 : ls.base[k] = ls.base[n - 1]})

TopEntry(ls) == IF is_empty(ls) THEN NULL ELSE ls.base[to_index(ls.top) - 1]

\* C1: after any sequence of push, pop and remove calls that each satisfy
\* their precondition, verify() passes for the owner and at a safepoint, the
\* ledger is dense and equal references form one contiguous run (only with
\* recursion support).
C1_VerifyPasses ==
  /\ verify(LS, "owner", FALSE) = "ok"
  /\ verify(LS, "vm", TRUE) = "ok"
  /\ (last.op = "verify" => last.ok)
  /\ Dense(LS)
  /\ UniqueRuns(LS)

C1_Witness ==
  /\ last.op = "verify" /\ last.arg = "owner" /\ last.ok
  /\ to_index(_top) = CAPACITY
  /\ _base[0] = _base[1]
  /\ count["A"] + count["B"] + count["C"] = CAPACITY

\* C2: LIFO law.  After k pushes the i-th pop returns the (k-i+1)-th pushed
\* reference, and the ledger is then what it was before that push; after the
\* k-th pop top and the slots equal their values before the sequence.
C2_LIFO ==
  last.op = "pop" /\ last.ok /\ hist.pops >= 1 =>
    LET k == Len(hist.pushes)
        i == hist.pops
    IN /\ last.ret = hist.pushes[k - i + 1]
       /\ LS = hist.snaps[k - i + 1]

C2_Witness ==
  /\ last.op = "pop" /\ last.ok
  /\ hist.pops = Len(hist.pushes)
  /\ hist.pops >= 2
  /\ hist.pushes[1] # hist.pushes[2]
  /\ hist.snaps[1].top > start_offset
  /\ LS = hist.snaps[1]

\* C6: containment law.  contains(x) is true from push(x) until the pops and
\* removes that take out every pushed copy of x, and false for an x never
\* pushed or fully taken out: it holds exactly when pushed copies of x are
\* outstanding, which is exactly when x occupies a live slot.
C6_Containment ==
  /\ \A x \in Oops : contains(LS, x) <=> count[x] > 0
  /\ \A x \in Oops : count[x] = Cardinality({i \in 0 .. to_index(_top) - 1 : _base[i] = x})
  /\ (last.op = "contains" => last.ok = (count[last.arg] > 0))

C6_Witness ==
  /\ last.op = "contains" /\ last.arg = "A" /\ ~last.ok
  /\ count["A"] = 0 /\ count["B"] > 0
  /\ _base[0] = "B"

\* C7: remove(x) deletes the entry at one position p holding x, keeps every
\* other entry in its order (those above p move down one slot), decrements
\* top by one slot and clears the vacated top slot.
C7_RemovePreservesOrder ==
  last.op = "remove" /\ last.ok =>
    LET n == to_index(last.pre.top)
    IN /\ to_index(_top) = n - 1
       /\ _top = last.pre.top - oopSize
       /\ _base[n - 1] = NULL
       /\ \E p \in 0 .. n - 1 :
            /\ last.pre.base[p] = last.arg
            /\ \A i \in 0 .. p - 1 : _base[i] = last.pre.base[i]
            /\ \A i \in p .. n - 2 : _base[i] = last.pre.base[i + 1]

C7_Witness ==
  /\ last.op = "remove" /\ last.arg = "B"
  /\ Entries(last.pre) = <<"A", "B", "C">>
  /\ Entries(LS) = <<"A", "C">>

\* C8: top stays within [start_offset, end_offset]; a push on a full ledger
\* and a pop on an empty one are fatal and write nothing; verify's bounds
\* asserts never fail.
C8_CapacityBounds ==
  /\ start_offset <= _top /\ _top <= end_offset
  /\ 0 <= to_index(_top) /\ to_index(_top) <= CAPACITY
  /\ (last.op = "push" /\ to_index(last.pre.top) = CAPACITY =>
        ~last.ok /\ fatal = "must have room" /\ LS = last.pre)
  /\ (last.op = "pop" /\ to_index(last.pre.top) = 0 =>
        ~last.ok /\ fatal = "underflow" /\ LS = last.pre)
  /\ \A c \in Callers, s \in BOOLEAN :
       verify(LS, c, s) \notin {"lockstack overflow", "lockstack underflow"}
  /\ (last.op = "verify" =>
        last.ret \notin {"lockstack overflow", "lockstack underflow"})

C8_Witness ==
  /\ last.op = "push" /\ ~last.ok
  /\ fatal = "must have room"
  /\ to_index(_top) = CAPACITY

\* C9: with recursion support a re-lock pushes a copy adjacent to the first
\* and an unlock pops one copy: the hold count of the top object is the
\* length of the trailing run, +1 per push and -1 per pop of that object;
\* push(A); push(A); pop() leaves [A], a second pop() leaves [].
C9_RecursionAccounting ==
  recursive =>
    /\ (~is_empty(LS) => TrailingRun(LS) = count[TopEntry(LS)])
    /\ (last.op = "push" /\ last.ok =>
          TrailingRun(LS) =
            IF TopEntry(last.pre) = last.arg THEN TrailingRun(last.pre) + 1 ELSE 1)
    /\ (last.op = "pop" /\ last.ok /\ TrailingRun(last.pre) >= 2 =>
          /\ TopEntry(LS) = last.ret
          /\ TrailingRun(LS) = TrailingRun(last.pre) - 1)
    /\ (last.op = "pop" /\ last.ok /\ TrailingRun(last.pre) = 1 =>
          ~contains(LS, last.ret))
    /\ (hist.pushes = <<"A", "A">> /\ is_empty(hist.snaps[1]) =>
          /\ (last.op = "pop" /\ hist.pops = 1 => Entries(LS) = <<"A">>)
          /\ (last.op = "pop" /\ hist.pops = 2 => Entries(LS) = <<>>))
    /\ (last.op = "verify" => last.ok)

C9_Witness ==
  /\ recursive
  /\ hist.pushes = <<"A", "A">> /\ is_empty(hist.snaps[1])
  /\ last.op = "pop" /\ hist.pops = 1
  /\ Entries(LS) = <<"A">>

\* The last call was verify_consistent_lock_order and it succeeded.
CheckSucceeded == last.op = "verify_consistent_lock_order" /\ last.ret.msg = "ok"

InLedger(o) == contains(LS, o)

\* The elements of the lock order that are in the ledger, in order.
PresentInOrder == SelectSeq(lock_order, InLedger)

\* The ledger slice [lo, hi), bottom first.
Slice(lo, hi) == [i \in 1 .. hi - lo |-> _base[lo + i - 1]]

\* C3: under racing inflation every live ledger entry is fast-locked or
\* inflated with an anonymous owner, every object the thread holds that is
\* absent from the ledger is inflated with the thread as recorded owner, and
\* the cross-check of the ledger against the true lock order succeeds.
C3_LedgerDescriptorAgreement ==
  /\ \A i \in 0 .. to_index(_top) - 1 : mark[_base[i]] \in {"fast_locked", "anonymous"}
  /\ \A i \in 1 .. Len(lock_order) :
       ~contains(LS, lock_order[i]) => mark[lock_order[i]] = "self"
  /\ \A i \in 0 .. to_index(_top) - 1 : _base[i] \in Range(lock_order)
  /\ (last.op = "verify_consistent_lock_order" => last.ret.msg = "ok")

C3_Witness ==
  /\ CheckSucceeded
  /\ \E i \in 0 .. to_index(_top) - 1 : mark[_base[i]] = "anonymous"
  /\ \E i \in 0 .. to_index(_top) - 1 : mark[_base[i]] = "fast_locked"
  /\ \E i \in 1 .. Len(lock_order) :
       ~contains(LS, lock_order[i]) /\ mark[lock_order[i]] = "self"

\* C4: whenever verify_consistent_lock_order succeeds, the elements of the
\* lock order that are in the ledger are, in order, the ledger slice
\* [final, window), and every other element is inflated, not fast-locked,
\* and absent from the ledger.
C4_CrossCheckSafety ==
  CheckSucceeded =>
    /\ last.ret.final >= 0 /\ last.ret.final <= last.ret.window
    /\ last.ret.window <= to_index(_top)
    /\ PresentInOrder = Slice(last.ret.final, last.ret.window)
    /\ \A i \in 1 .. Len(lock_order) :
         ~InLedger(lock_order[i]) => mark[lock_order[i]] \in Inflated

C4_Witness ==
  /\ CheckSucceeded
  /\ ~leaf_frame
  /\ Len(lock_order) = 3
  /\ last.ret.window < to_index(_top)
  /\ last.ret.window - last.ret.final = 2
  /\ \E i \in 1 .. Len(lock_order) : ~InLedger(lock_order[i])

\* The call of scenario 2: ledger [A, C], A and C fast-locked, B absent from
\* the ledger, lock order [A, B, C], leaf frame.
Scenario2 ==
  /\ last.op = "verify_consistent_lock_order"
  /\ Entries(LS) = <<"A", "C">>
  /\ mark["A"] = "fast_locked" /\ mark["C"] = "fast_locked"
  /\ lock_order = <<"A", "B", "C">>
  /\ leaf_frame

\* C5 as stated: with B inflated with an anonymous owner the cross-check of
\* scenario 2 succeeds.
C5_AsStated == Scenario2 /\ mark["B"] = "anonymous" => last.ret.msg = "ok"

\* C5, amended: in scenario 2 with B inflated and owned by this thread the
\* cross-check succeeds, C and A consuming the two ledger entries; with B
\* inflated with an anonymous owner it fails the owner assert.
C5_Scenario2 ==
  /\ (Scenario2 /\ mark["B"] = "self" =>
        last.ret = [msg |-> "ok", window |-> 2, final |-> 0])
  /\ (Scenario2 /\ mark["B"] = "anonymous" =>
        last.ret.msg = "must be owned by (or waited on by) thread")

C5_Witness == Scenario2 /\ mark["B"] = "self" /\ last.ret.msg = "ok"

\* C10: for a ledger whose entries are all fast-locked and a lock order equal
\* to the ledger contents, in a leaf frame, the cross-check succeeds and
\* consumes every entry: the window starts at n and ends at 0.
C10_AllFastLocked ==
  /\ last.op = "verify_consistent_lock_order"
  /\ leaf_frame
  /\ lock_order = Entries(LS)
  /\ \A i \in 1 .. Len(lock_order) : mark[lock_order[i]] = "fast_locked"
  => last.ret = [msg |-> "ok", window |-> to_index(_top), final |-> 0]

C10_Witness ==
  /\ CheckSucceeded
  /\ leaf_frame
  /\ lock_order = <<"A", "B", "C">>
  /\ Entries(LS) = <<"A", "B", "C">>
  /\ \A o \in Oops : mark[o] = "fast_locked"
  /\ last.ret.window = 3 /\ last.ret.final = 0

\* The last call was verify_consistent_lock_order.
CheckCalled == last.op = "verify_consistent_lock_order"

\* The second loop of the last call after it has handled the elements
\* k .. Len(lock_order) of the lock order; k = Len(lock_order) + 1 is the
\* loop before its first element.
LoopAfter(k) ==
  check_lock_order(LS, SubSeq(lock_order, k, Len(lock_order)), leaf_frame,
                   Len(lock_order) - k + 1, last.ret.window)

\* The element k of the lock order is the ledger entry below the window when
\* the second loop reaches it.
MatchesLedger(k) ==
  /\ LoopAfter(k + 1).top_index > 0
  /\ lock_order[k] = _base[LoopAfter(k + 1).top_index - 1]

\* The second loop reaches element k: the search and every later element
\* passed.
Reaches(k) ==
  /\ CheckCalled
  /\ k \in 1 .. Len(lock_order)
  /\ last.ret.window <= to_index(_top)
  /\ last.ret.msg # "too many obj in lock_order"
  /\ LoopAfter(k + 1).msg = "ok"

\* C11 as stated: the check fails whenever the lock order holds an object
\* that is neither fast-locked, nor inflated and owned by this thread, nor a
\* leaf-frame wait target.
C11_AsStated ==
  /\ CheckCalled
  /\ \E i \in 1 .. Len(lock_order) :
       /\ mark[lock_order[i]] \notin {"fast_locked", "self"}
       /\ ~(leaf_frame /\ waiting = lock_order[i])
  => last.ret.msg # "ok"

\* C11, amended: the check fails whenever the lock order holds an object that
\* is neither fast-locked, nor inflated with an anonymous owner, nor inflated
\* and owned by this thread, nor, in a frame that is not the leaf frame, the
\* monitor the thread waits on.
C11_CrossCheckFails ==
  /\ CheckCalled
  /\ \E i \in 1 .. Len(lock_order) :
       /\ mark[lock_order[i]] \notin {"fast_locked", "anonymous", "self"}
       /\ ~(~leaf_frame /\ waiting = lock_order[i])
  => last.ret.msg # "ok" /\ ~last.ok

C11_Witness ==
  /\ CheckCalled
  /\ leaf_frame
  /\ Len(lock_order) = 3
  /\ mark[lock_order[3]] = "fast_locked" /\ mark[lock_order[2]] = "self"
  /\ mark[lock_order[1]] = "other" /\ waiting = lock_order[1]
  /\ last.ret.msg = "must be owned by (or waited on by) thread"

\* C16: an element equal to the ledger entry at window - 1 is accepted only
\* if it is fast-locked or inflated with an anonymous owner; with a recorded
\* owner, even this thread, the check fails; an accepted element lowers the
\* window by exactly one.
C16_MatchedEntry ==
  \A k \in 1 .. Len(lock_order) :
    Reaches(k) /\ MatchesLedger(k) =>
      /\ LoopAfter(k).msg = "ok" <=> mark[lock_order[k]] \in {"fast_locked", "anonymous"}
      /\ mark[lock_order[k]] \in {"self", "other"} =>
           last.ret.msg = "must be fast_locked or inflated by other thread"
      /\ LoopAfter(k).msg = "ok" =>
           LoopAfter(k).top_index = LoopAfter(k + 1).top_index - 1
      /\ k = 1 => last.ret.msg = LoopAfter(k).msg /\ last.ret.final = LoopAfter(k).top_index

C16_Witness ==
  /\ CheckCalled
  /\ Len(lock_order) = 2
  /\ Reaches(1) /\ MatchesLedger(1)
  /\ mark[lock_order[1]] = "self"
  /\ mark[lock_order[2]] = "anonymous"
  /\ LoopAfter(2).top_index = to_index(_top) - 1
  /\ last.ret.msg = "must be fast_locked or inflated by other thread"

\* C17: an element that is not the ledger entry at window - 1 is accepted
\* only if it is inflated, is nowhere in the ledger, and its monitor is owned
\* by this thread or, in a frame that is not the leaf frame only, waited on
\* by this thread; the window is left as it is.
C17_UnmatchedEntry ==
  \A k \in 1 .. Len(lock_order) :
    Reaches(k) /\ ~MatchesLedger(k) =>
      /\ LoopAfter(k).msg = "ok" <=>
           /\ mark[lock_order[k]] \in Inflated
           /\ ~contains(LS, lock_order[k])
           /\ \/ mark[lock_order[k]] = "self"
              \/ ~leaf_frame /\ waiting = lock_order[k]
      /\ LoopAfter(k).msg = "ok" => LoopAfter(k).top_index = LoopAfter(k + 1).top_index
      /\ leaf_frame /\ waiting = lock_order[k] /\ mark[lock_order[k]] # "self" =>
           last.ret.msg # "ok"
      /\ k = 1 => last.ret.msg = LoopAfter(k).msg /\ last.ret.final = LoopAfter(k).top_index

C17_Witness ==
  /\ CheckCalled
  /\ leaf_frame
  /\ Len(lock_order) = 2
  /\ Reaches(1) /\ ~MatchesLedger(1)
  /\ waiting = lock_order[1] /\ mark[lock_order[1]] = "other"
  /\ ~contains(LS, lock_order[1])
  /\ mark[lock_order[2]] = "fast_locked"
  /\ last.ret.msg = "must be owned by (or waited on by) thread"

\* C20: the check does not need the window consumed: a leaf-frame lock order
\* of just the fast-locked top entry succeeds and leaves the entries below
\* unmatched; an empty lock order succeeds on every ledger, leaf frame or
\* not; and when no element of a non-leaf lock order is in the ledger the
\* window stays the ledger size n.
C20_WindowNotConsumed ==
  CheckCalled =>
    /\ lock_order = <<>> =>
         last.ret = [msg |-> "ok", window |-> to_index(_top), final |-> to_index(_top)]
    /\ (/\ leaf_frame
        /\ Len(lock_order) = 1
        /\ lock_order[1] = TopEntry(LS)
        /\ mark[lock_order[1]] = "fast_locked") =>
         last.ret = [msg |-> "ok", window |-> to_index(_top),
                     final |-> to_index(_top) - 1]
    /\ (~leaf_frame /\ \A i \in 1 .. Len(lock_order) : ~contains(LS, lock_order[i])) =>
         last.ret.window = to_index(_top)

C20_Witness ==
  /\ CheckSucceeded
  /\ leaf_frame
  /\ lock_order = <<"A">>
  /\ Entries(LS) = <<"B", "C", "A">>
  /\ \A o \in Oops : mark[o] = "fast_locked"
  /\ last.ret.window = 3 /\ last.ret.final = 2

\* C13: end_offset - start_offset is CAPACITY slots, both offsets are
\* strictly positive with start_offset < end_offset, to_index inverts
\* to_offset on 0 .. CAPACITY, and a fresh ledger has _top at start_offset,
\* index 0.
C13_OffsetAlgebra ==
  /\ end_offset - start_offset = CAPACITY * oopSize
  /\ start_offset > 0 /\ end_offset > 0 /\ start_offset < end_offset
  /\ \A i \in 0 .. CAPACITY : to_index(to_offset(i)) = i
  /\ to_offset(0) = start_offset /\ to_offset(CAPACITY) = end_offset
  /\ last.op = "none" => _top = start_offset /\ to_index(_top) = 0

C13_Witness ==
  /\ last.op = "push"
  /\ oopSize = 4
  /\ to_index(_top) = CAPACITY
  /\ _top = end_offset
  /\ _top - start_offset = CAPACITY * oopSize

\* The last call of verify() went through the gate to the slot loops.
Inspected == last.arg.at_safepoint \/ last.arg.caller = "owner"

\* The asserts of verify's slot loops.
SlotAsserts ==
  {"no zapped before top", "entries must be unique", "only zapped entries after top"}

\* C14: called by the owner or at a safepoint, verify() passes iff _top is
\* in [start_offset, end_offset], every slot below the top is non-empty,
\* every slot from the top on is empty, and no reference is at two positions
\* below the top other than, with recursion support, inside one run of
\* adjacent identical entries; without recursion support adjacent duplicates
\* fail too.
C14_VerifyDecides ==
  last.op = "verify" /\ Inspected =>
    /\ last.ok <=> /\ _top >= start_offset /\ _top <= end_offset
                   /\ Dense(LS)
                   /\ UniqueRuns(LS)
    /\ (/\ ~recursive
        /\ _top >= start_offset /\ _top <= end_offset
        /\ \E i \in 1 .. to_index(_top) - 1 : _base[i - 1] = _base[i]) => ~last.ok

C14_Witness ==
  /\ last.op = "verify"
  /\ last.arg = [caller |-> "vm", at_safepoint |-> TRUE]
  /\ recursive
  /\ to_index(_top) = 3
  /\ Entries(LS) = <<"A", "A", "B">>
  /\ Dense(LS)
  /\ last.ok

\* C19: called by a thread that is not the owner while not at a safepoint,
\* verify() checks the bounds of _top only: it passes whatever the slots
\* hold; the slots are inspected, and a ledger that is not dense or not
\* unique is reported, iff the call is at a safepoint or by the owner.
C19_GatedInspection ==
  last.op = "verify" =>
    /\ ~Inspected =>
         /\ last.ok <=> _top >= start_offset /\ _top <= end_offset
         /\ last.ret \notin SlotAsserts
    /\ (/\ _top >= start_offset /\ _top <= end_offset
        /\ ~(Dense(LS) /\ UniqueRuns(LS))) =>
         (Inspected <=> last.ret \in SlotAsserts)

C19_Witness ==
  /\ last.op = "verify"
  /\ last.arg = [caller |-> "java", at_safepoint |-> FALSE]
  /\ to_index(_top) = 2
  /\ _base[0] = NULL /\ _base[1] = "A" /\ _base[2] = "A"
  /\ last.ok

\* The last call was the cross-check of an outer frame; its lock order is
\* the argument.
OuterCheckCalled == last.op = "verify_consistent_lock_order of an outer frame"

\* The lowest ledger position of o.
Position(o) == CHOOSE p \in 0 .. to_index(_top) - 1 :
                 _base[p] = o /\ \A q \in 0 .. p - 1 : _base[q] # o

\* The last element of the lock order lo that is in the ledger.
FirstFound(lo) == CHOOSE i \in 1 .. Len(lo) :
                    InLedger(lo[i]) /\ \A k \in i + 1 .. Len(lo) : ~InLedger(lo[k])

\* The number of elements of lo immediately before element i equal to it.
Repeats(lo, i) ==
  Cardinality({k \in 1 .. i - 1 : \A m \in k .. i - 1 : lo[m] = lo[i]})

\* C15 as stated: for a non-leaf frame the window is p + 1 for the first
\* object o found in the ledger scanning the lock order backward, plus, with
\* recursion support, one for each immediately preceding element equal to o;
\* it never exceeds the ledger size; and for a valid ledger and a consistent
\* lock order it is one past the last ledger position of o's run that
\* belongs to the frame: the frame is the outermost one, so its entries are
\* the lowest of the ledger, as many as it holds locks that are in the
\* ledger.
C15_AsStated ==
  OuterCheckCalled /\ (\E i \in 1 .. Len(last.arg) : InLedger(last.arg[i])) =>
    LET lo == last.arg
        i == FirstFound(lo)
    IN /\ last.ret.window =
            Position(lo[i]) + 1 + (IF recursive THEN Repeats(lo, i) ELSE 0)
       /\ last.ret.window <= to_index(_top)
       /\ last.ret.window = Len(SelectSeq(lo, InLedger))

\* The operations that only read the ledger.
ReadOnly ==
  {"verify", "verify_consistent_lock_order",
   "verify_consistent_lock_order of an outer frame", "contains", "print_on"}

\* C18: verify(), verify_consistent_lock_order(), contains() and print_on()
\* leave _top and every slot as they were, and print_on visits each live
\* entry once, from top - 1 down to 0, and no slot at or above the top.
C18_ReadOnly ==
  /\ last.op \in ReadOnly => LS = last.pre
  /\ last.op = "print_on" =>
       LET n == to_index(last.pre.top)
       IN /\ Len(last.ret) = n
          /\ \A k \in 1 .. n :
               /\ last.ret[k].index = n - k
               /\ last.ret[k].oop = last.pre.base[n - k]
               /\ last.ret[k].is_oop

C18_Witness ==
  /\ last.op = "print_on"
  /\ LS = last.pre
  /\ to_index(_top) = 3
  /\ Len(last.ret) = 3
  /\ last.ret[1].index = 2 /\ last.ret[1].oop = "B"
  /\ last.ret[2].index = 1 /\ last.ret[2].oop = "A"
  /\ last.ret[3].index = 0 /\ last.ret[3].oop = "A"

\* C12: with push, pop and remove taken by the owner one memory step at a
\* time and other threads inspecting the ledger only at a safepoint, where
\* the owner is between operations, no verify() of another thread sees an
\* intermediate state or reports a slot assert, and between operations the
\* ledger is valid.
C12_PausePointReaders ==
  /\ last.op = "verify" /\ last.arg.caller # "owner" =>
       /\ last.ok
       /\ last.ret \notin SlotAsserts
       /\ last.arg.at_safepoint => Idle /\ Dense(last.pre) /\ UniqueRuns(last.pre)
  /\ Idle => verify(LS, "owner", FALSE) = "ok"
  /\ Idle /\ running.done = "push" => LS = push(running.start, running.obj)
  /\ Idle /\ running.done = "pop" =>
       /\ LS.top = pop(running.start).top
       /\ LS.base = pop(running.start).base
       /\ running.obj = pop(running.start).ret
  /\ Idle /\ running.done = "remove" => LS = remove(running.start, running.obj)

C12_Witness ==
  /\ last.op = "verify"
  /\ last.arg = [caller |-> "vm", at_safepoint |-> TRUE]
  /\ last.ok
  /\ Idle /\ running.obj = "A" /\ running.done = "remove"
  /\ Entries(running.start) = <<"A", "B", "C">>
  /\ Entries(LS) = <<"B", "C">>

====
